---- MODULE Spec2Model ----
(***************************************************************************)
(* A model of the chat-statistics engine of akchonya/2025-chat-stats:      *)
(* stats_messages.py (streaks), stats_time.py (monthly counts) and         *)
(* stats_words.py (normalizer, top words, word search), called by the      *)
(* handlers of api.py on a loaded message list.                            *)
(*                                                                         *)
(* A Python str is a sequence of Unicode code points (65 is "A"), so that  *)
(* lower(), the regular expressions and string ordering are computed.      *)
(* Strings that are only compared for equality (sender names, ISO dates)   *)
(* are TLA+ strings.                                                       *)
(***************************************************************************)
EXTENDS Integers, Sequences, FiniteSets, TLC

VARIABLES messages, messages2, request, response, response2

vars == <<messages, messages2, request, response, response2>>

\* Python's None where a string is expected.
None == "<None>"
\* Python's None where a date is expected.
NoDate == [year |-> 0, month |-> 0, day |-> 0]

Min(a, b) == IF a <= b THEN a ELSE b

SeqsUpTo(S, n) == UNION {[1..k -> S] : k \in 0..n}

-----------------------------------------------------------------------------
(* datetime.date, as the engine uses it: ordering, subtraction,            *)
(* toordinal/fromordinal and isoformat.                                    *)

date(y, m, d) == [year |-> y, month |-> m, day |-> d]

IsLeap(y) == y % 4 = 0 /\ (y % 100 # 0 \/ y % 400 = 0)

DaysInMonth(y, m) ==
    IF m = 2 THEN (IF IsLeap(y) THEN 29 ELSE 28)
    ELSE IF m \in {4, 6, 9, 11} THEN 30 ELSE 31

RECURSIVE DaysBeforeMonth(_, _)
DaysBeforeMonth(y, m) ==
    IF m = 1 THEN 0 ELSE DaysBeforeMonth(y, m - 1) + DaysInMonth(y, m - 1)

DaysBeforeYear(y) ==
    LET p == y - 1 IN p * 365 + (p \div 4) - (p \div 100) + (p \div 400)

toordinal(d) == DaysBeforeYear(d.year) + DaysBeforeMonth(d.year, d.month) + d.day

\* date.fromordinal: the 400/100/4/1-year cycle decomposition.
fromordinal(n) ==
    LET n0   == n - 1
        n400 == n0 \div 146097
        r400 == n0 % 146097
        n100 == r400 \div 36524
        r100 == r400 % 36524
        n4   == r100 \div 1461
        r4   == r100 % 1461
        n1   == r4 \div 365
        r1   == r4 % 365
        y    == n400 * 400 + 1 + n100 * 100 + n4 * 4 + n1
    IN  IF n1 = 4 \/ n100 = 4
        THEN date(y - 1, 12, 31)
        ELSE LET m0 == (r1 + 50) \div 32
                 p0 == DaysBeforeMonth(y, m0)
                 m  == IF p0 > r1 THEN m0 - 1 ELSE m0
                 p  == DaysBeforeMonth(y, m)
             IN  date(y, m, r1 - p + 1)

\* date.__lt__: comparison of (year, month, day).
DateLess(a, b) ==
    \/ a.year < b.year
    \/ a.year = b.year /\ a.month < b.month
    \/ a.year = b.year /\ a.month = b.month /\ a.day < b.day

Pad2(n) == IF n < 10 THEN "0" \o ToString(n) ELSE ToString(n)

Pad4(n) ==
    IF n < 10 THEN "000" \o ToString(n)
    ELSE IF n < 100 THEN "00" \o ToString(n)
    ELSE IF n < 1000 THEN "0" \o ToString(n)
    ELSE ToString(n)

\* date.isoformat: "YYYY-MM-DD".
isoformat(d) == Pad4(d.year) \o "-" \o Pad2(d.month) \o "-" \o Pad2(d.day)

-----------------------------------------------------------------------------
(* chat_loader.ChatMessage: the fields the engine reads.  date stands for  *)
(* the datetime (its time of day is read by nothing), date_only for        *)
(* dt.date().                                                              *)

ChatMessage(name, id, d, txt) ==
    [sender_name |-> name, sender_id |-> id, date |-> d, date_only |-> d, text |-> txt]

\* sender = msg.sender_name or (msg.sender_id or "unknown")
Falsy(s) == s = None \/ s = ""

sender_key(m) ==
    IF ~Falsy(m.sender_name) THEN m.sender_name
    ELSE IF ~Falsy(m.sender_id) THEN m.sender_id
    ELSE "unknown"

-----------------------------------------------------------------------------
(* stats_words: the normalizer.  Characters are the code points below 256  *)
(* and of the Cyrillic block 1024..1119.                                   *)

\* str.lower() of one character.
LowerChar(c) ==
    IF c \in 65..90 \/ c \in 192..214 \/ c \in 216..222 \/ c \in 1040..1071 THEN c + 32
    ELSE IF c \in 1024..1039 THEN c + 80
    ELSE c

lower(text) == [i \in 1..Len(text) |-> LowerChar(text[i])]

\* \s of the re module.
IsSpace(c) == c \in 9..13 \/ c \in 28..32 \/ c = 133 \/ c = 160

\* [^\W\d_] of the re module: alphanumeric, no decimal digit, no underscore.
IsWordChar(c) ==
    \/ c \in 65..90 \/ c \in 97..122
    \/ c \in {170, 178, 179, 181, 185, 186, 188, 189, 190}
    \/ c \in 192..214 \/ c \in 216..246 \/ c \in 248..255
    \/ c \in 1024..1119

\* The end of the run of characters of set ok that starts at text[i]: the
\* first position from i on that holds no such character.
RunEnd(text, i, ok) ==
    LET stops == {j \in i..Len(text) : text[j] \notin ok}
    IN  IF stops = {} THEN Len(text) + 1
        ELSE CHOOSE j \in stops : \A k \in stops : j <= k

Chars(text) == {text[j] : j \in 1..Len(text)}

\* The length of the greedy match of [^\W\d_]* at text[i].
WordRunLen(text, i) ==
    IF i > Len(text) THEN 0
    ELSE RunEnd(text, i, {c \in Chars(text) : IsWordChar(c)}) - i

\* The length of the greedy match of \S* at text[i].
NonSpaceRunLen(text, i) ==
    IF i > Len(text) THEN 0
    ELSE RunEnd(text, i, {c \in Chars(text) : ~IsSpace(c)}) - i

HasAt(text, i, lit) ==
    /\ i + Len(lit) - 1 <= Len(text)
    /\ \A k \in 1..Len(lit) : text[i + k - 1] = lit[k]

\* The length of the match of https?://\S+ at text[i], 0 when there is none.
url_match(text, i) ==
    LET j == IF HasAt(text, i + 4, <<115>>) THEN i + 5 ELSE i + 4
    IN  IF /\ HasAt(text, i, <<104, 116, 116, 112>>)
           /\ HasAt(text, j, <<58, 47, 47>>)
           /\ NonSpaceRunLen(text, j + 3) > 0
        THEN (j + 3 - i) + NonSpaceRunLen(text, j + 3)
        ELSE 0

\* re.sub(r"https?://\S+", " ", text), from position i on.
RECURSIVE remove_urls(_, _)
remove_urls(text, i) ==
    IF i > Len(text) THEN <<>>
    ELSE LET n == url_match(text, i)
         IN  IF n > 0 THEN <<32>> \o remove_urls(text, i + n)
             ELSE <<text[i]>> \o remove_urls(text, i + 1)

\* WORD_RE.findall(text), from position i on: the runs of 3 or more word
\* characters.
RECURSIVE findall_words(_, _)
findall_words(text, i) ==
    IF i > Len(text) THEN <<>>
    ELSE LET n == WordRunLen(text, i)
         IN  IF n >= 3 THEN <<SubSeq(text, i, i + n - 1)>> \o findall_words(text, i + n)
             ELSE findall_words(text, i + 1)

\* re.sub(r"(.)\1+", r"\1", word): "." matches no newline.
RECURSIVE normalize_repeats(_)
normalize_repeats(word) ==
    IF Len(word) <= 1 THEN word
    ELSE IF word[1] = word[2] /\ word[1] # 10 THEN normalize_repeats(Tail(word))
    ELSE <<word[1]>> \o normalize_repeats(Tail(word))

RECURSIVE keep_long_words(_)
keep_long_words(raws) ==
    IF raws = <<>> THEN <<>>
    ELSE LET w == normalize_repeats(raws[1])
         IN  IF Len(w) < 3 THEN keep_long_words(Tail(raws))
             ELSE <<w>> \o keep_long_words(Tail(raws))

extract_normalized_words(text) ==
    keep_long_words(findall_words(remove_urls(lower(text), 1), 1))

-----------------------------------------------------------------------------
(* stats_words.top_words                                                   *)

\* The built-in stop words (ti, ya, i, ta, tse, shcho, ale, ne, nu, tak,
\* meni, mene, tam, vzhe, vse, tebe, tobi, pro, shchob, tezh).
DEFAULT_SKIP_WORDS ==
    << <<1090, 1080>>, <<1103>>, <<1110>>, <<1090, 1072>>, <<1094, 1077>>,
       <<1097, 1086>>, <<1072, 1083, 1077>>, <<1085, 1077>>, <<1085, 1091>>,
       <<1090, 1072, 1082>>, <<1084, 1077, 1085, 1110>>, <<1084, 1077, 1085, 1077>>,
       <<1090, 1072, 1084>>, <<1074, 1078, 1077>>, <<1074, 1089, 1077>>,
       <<1090, 1077, 1073, 1077>>, <<1090, 1086, 1073, 1110>>, <<1087, 1088, 1086>>,
       <<1097, 1086, 1073>>, <<1090, 1077, 1078>> >>

\* A Counter is a dict: a sequence of <<key, count>> in insertion order.
RECURSIVE CounterAdd(_, _)
CounterAdd(c, key) ==
    IF c = <<>> THEN << <<key, 1>> >>
    ELSE IF c[1][1] = key THEN << <<key, c[1][2] + 1>> >> \o Tail(c)
    ELSE <<c[1]>> \o CounterAdd(Tail(c), key)

\* c[key]: 0 for a missing key.
RECURSIVE CounterGet(_, _)
CounterGet(c, key) ==
    IF c = <<>> THEN 0
    ELSE IF c[1][1] = key THEN c[1][2]
    ELSE CounterGet(Tail(c), key)

\* skip_set = {normalize_repeats(w.lower()) for w in all_skip}
skip_set(skip) ==
    LET all_skip == DEFAULT_SKIP_WORDS \o skip
    IN  {normalize_repeats(lower(all_skip[i])) : i \in 1..Len(all_skip)}

\* total_counter[w] += 1; per_person[sender][w] += 1
count_word(st, sender, w) ==
    [total_counter |-> CounterAdd(st.total_counter, w),
     per_person    |-> IF sender \in DOMAIN st.per_person
                       THEN [st.per_person EXCEPT ![sender] = CounterAdd(@, w)]
                       ELSE st.per_person @@ (sender :> CounterAdd(<<>>, w))]

\* The loop over the words of one message.
RECURSIVE count_words(_, _, _, _, _)
count_words(st, sender, words, min_len, skips) ==
    IF words = <<>> THEN st
    ELSE LET w == words[1]
         IN  IF Len(w) < min_len \/ w \in skips
             THEN count_words(st, sender, Tail(words), min_len, skips)
             ELSE count_words(count_word(st, sender, w), sender, Tail(words), min_len, skips)

\* The loop over the messages, from message i on.
RECURSIVE count_messages_words(_, _, _, _, _)
count_messages_words(st, msgs, i, min_len, skips) ==
    IF i > Len(msgs) THEN st
    ELSE IF msgs[i].text = <<>>
    THEN count_messages_words(st, msgs, i + 1, min_len, skips)
    ELSE LET words == extract_normalized_words(msgs[i].text)
         IN  IF words = <<>>
             THEN count_messages_words(st, msgs, i + 1, min_len, skips)
             ELSE count_messages_words(
                      count_words(st, sender_key(msgs[i]), words, min_len, skips),
                      msgs, i + 1, min_len, skips)

\* Mutant: an item goes before the items of the same count already placed.
RECURSIVE InsertByCountBeforeTies(_, _)
InsertByCountBeforeTies(s, x) ==
    IF s = <<>> THEN <<x>>
    ELSE IF x[2] >= s[1][2] THEN <<x>> \o s
    ELSE <<s[1]>> \o InsertByCountBeforeTies(Tail(s), x)

\* An item goes after every item placed whose count is at least its own.
RECURSIVE InsertByCount(_, _)
InsertByCount(s, x) ==
    IF s = <<>> THEN <<x>>
    ELSE IF x[2] > s[1][2] THEN <<x>> \o s
    ELSE <<s[1]>> \o InsertByCount(Tail(s), x)

\* sorted(items, key=itemgetter(1), reverse=True): stable, descending count.
RECURSIVE sorted_by_count(_)
sorted_by_count(c) ==
    IF c = <<>> THEN <<>>
    ELSE InsertByCount(sorted_by_count(SubSeq(c, 1, Len(c) - 1)), c[Len(c)])

\* Mutant: the first n items in insertion order, then sorted.
most_common_cut_first(c, n) ==
    IF n <= 0 THEN <<>>
    ELSE sorted_by_count(SubSeq(c, 1, Min(n, Len(c))))

\* Counter.most_common(n), n an integer: heapq.nlargest(n, items, key=count).
most_common(c, n) ==
    IF n <= 0 THEN <<>>
    ELSE SubSeq(sorted_by_count(c), 1, Min(n, Len(c)))

\* Mutant: every sender of the table is listed, with a count of 0 too.
per_person_counts_unfiltered(per_person, word) ==
    [person \in DOMAIN per_person |-> CounterGet(per_person[person], word)]

\* {person: c[word] for person, c in per_person.items() if c[word] > 0}
per_person_counts(per_person, word) ==
    [person \in {q \in DOMAIN per_person : CounterGet(per_person[q], word) > 0} |->
        CounterGet(per_person[person], word)]

\* The counters after the loop over the messages.
word_counters(msgs, min_len, skip) ==
    count_messages_words([total_counter |-> <<>>, per_person |-> <<>>],
                         msgs, 1, min_len, skip_set(skip))

top_words(msgs, min_len, top_n, skip) ==
    LET st == word_counters(msgs, min_len, skip)
        mc == most_common(st.total_counter, top_n)
    IN  [i \in 1..Len(mc) |->
            [word        |-> mc[i][1],
             total_count |-> mc[i][2],
             per_person  |-> per_person_counts(st.per_person, mc[i][1])]]

-----------------------------------------------------------------------------
(* stats_words.count_specific_words                                        *)

\* norm_targets: the original targets whose normalized form is not empty,
\* each with that form.
norm_targets(target_words) ==
    LET kept == {target_words[i] : i \in 1..Len(target_words)}
    IN  [w \in {t \in kept : normalize_repeats(lower(t)) # <<>>} |->
            normalize_repeats(lower(w))]

\* Mutant: the words that begin with the target are counted.
count_here_prefix(words, norm) ==
    Cardinality({i \in 1..Len(words) :
                    Len(words[i]) >= Len(norm) /\ SubSeq(words[i], 1, Len(norm)) = norm})

\* count_here = sum(1 for w in words if w == norm)
count_here(words, norm) == Cardinality({i \in 1..Len(words) : words[i] = norm})

\* The body of the loop over the targets, for one message with words.
add_target_counts(st, sender, words, targets) ==
    LET here == [o \in DOMAIN targets |-> count_here(words, targets[o])]
        zero == [o \in DOMAIN targets |-> 0]
        mine == IF sender \in DOMAIN st.per_person THEN st.per_person[sender] ELSE zero
        hit  == \E o \in DOMAIN targets : here[o] > 0
    IN  [totals     |-> [o \in DOMAIN targets |-> st.totals[o] + here[o]],
         per_person |-> IF ~hit THEN st.per_person
                        ELSE [q \in DOMAIN st.per_person \cup {sender} |->
                                 IF q = sender
                                 THEN [o \in DOMAIN targets |-> mine[o] + here[o]]
                                 ELSE st.per_person[q]]]

\* The loop over the messages, from message i on.
RECURSIVE count_messages_targets(_, _, _, _)
count_messages_targets(st, msgs, i, targets) ==
    IF i > Len(msgs) THEN st
    ELSE IF msgs[i].text = <<>>
    THEN count_messages_targets(st, msgs, i + 1, targets)
    ELSE LET words == extract_normalized_words(msgs[i].text)
         IN  IF words = <<>>
             THEN count_messages_targets(st, msgs, i + 1, targets)
             ELSE count_messages_targets(
                      add_target_counts(st, sender_key(msgs[i]), words, targets),
                      msgs, i + 1, targets)

\* The keys of the result: the original targets kept.
result_keys(targets) == DOMAIN targets

count_specific_words(msgs, target_words) ==
    LET targets == norm_targets(target_words)
        st == count_messages_targets(
                  [totals |-> [o \in DOMAIN targets |-> 0], per_person |-> <<>>],
                  msgs, 1, targets)
    IN  [original \in result_keys(targets) |->
            [total_count |-> st.totals[original],
             per_person  |->
                 [person \in {q \in DOMAIN st.per_person : st.per_person[q][original] > 0} |->
                     st.per_person[person][original]]]]

-----------------------------------------------------------------------------
(* stats_messages.longest_talking_and_silent_streaks                       *)

RECURSIVE sorted_dates(_)
sorted_dates(S) ==
    IF S = {} THEN <<>>
    ELSE LET lo == CHOOSE d \in S : \A e \in S : ~DateLess(e, d)
         IN  <<lo>> \o sorted_dates(S \ {lo})

\* Mutant: the distinct days in order of first occurrence, never sorted.
RECURSIVE distinct_days_unsorted(_)
distinct_days_unsorted(msgs) ==
    IF msgs = <<>> THEN <<>>
    ELSE LET init == SubSeq(msgs, 1, Len(msgs) - 1)
             d    == msgs[Len(msgs)].date_only
         IN  IF \E i \in 1..Len(init) : init[i].date_only = d
             THEN distinct_days_unsorted(init)
             ELSE distinct_days_unsorted(init) \o <<d>>

\* days = sorted({m.date_only for m in messages})
distinct_days(msgs) == sorted_dates({msgs[i].date_only : i \in 1..Len(msgs)})

\* Mutant: a broken streak replaces the best one when it is as long (>=).
talk_step_ge(st, prev, current) ==
    LET delta == toordinal(current) - toordinal(prev)
    IN  IF delta = 1
        THEN [st EXCEPT !.cur_len = st.cur_len + 1]
        ELSE LET upd == st.cur_len >= st.best_talk_len
             IN  [best_talk_len   |-> IF upd THEN st.cur_len ELSE st.best_talk_len,
                  best_talk_start |-> IF upd THEN st.cur_start ELSE st.best_talk_start,
                  best_talk_end   |-> IF upd THEN prev ELSE st.best_talk_end,
                  cur_len         |-> 1,
                  cur_start       |-> current]

\* One iteration of the talking-streak loop over (prev, current).
talk_step(st, prev, current) ==
    LET delta == toordinal(current) - toordinal(prev)
    IN  IF delta = 1
        THEN [st EXCEPT !.cur_len = st.cur_len + 1]
        ELSE LET upd == st.cur_len > st.best_talk_len
             IN  [best_talk_len   |-> IF upd THEN st.cur_len ELSE st.best_talk_len,
                  best_talk_start |-> IF upd THEN st.cur_start ELSE st.best_talk_start,
                  best_talk_end   |-> IF upd THEN prev ELSE st.best_talk_end,
                  cur_len         |-> 1,
                  cur_start       |-> current]

RECURSIVE talk_loop(_, _, _)
talk_loop(days, i, st) ==
    IF i >= Len(days) THEN st
    ELSE talk_loop(days, i + 1, talk_step(st, days[i], days[i + 1]))

\* The check of the final streak after the loop.
talk_final(days, st) ==
    IF st.cur_len > st.best_talk_len
    THEN [st EXCEPT !.best_talk_len = st.cur_len,
                    !.best_talk_start = st.cur_start,
                    !.best_talk_end = days[Len(days)]]
    ELSE st

\* Mutant: a gap replaces the best one when it is as long (>=).
silent_step_ge(st, prev, current) ==
    LET gap == (toordinal(current) - toordinal(prev)) - 1
    IN  IF gap >= st.best_silent_len
        THEN IF gap > 0
             THEN [best_silent_len   |-> gap,
                   best_silent_start |-> fromordinal(toordinal(prev) + 1),
                   best_silent_end   |-> fromordinal(toordinal(prev) + gap)]
             ELSE [st EXCEPT !.best_silent_len = gap]
        ELSE st

\* Mutant: the dates are stored for every gap that is at least the best one,
\* a gap of 0 included.
silent_step_unguarded(st, prev, current) ==
    LET gap == (toordinal(current) - toordinal(prev)) - 1
    IN  IF gap >= st.best_silent_len
        THEN [best_silent_len   |-> gap,
              best_silent_start |-> fromordinal(toordinal(prev) + 1),
              best_silent_end   |-> fromordinal(toordinal(prev) + gap)]
        ELSE st

\* One iteration of the silent-streak loop over (prev, current).
silent_step(st, prev, current) ==
    LET gap == (toordinal(current) - toordinal(prev)) - 1
    IN  IF gap > st.best_silent_len
        THEN IF gap > 0
             THEN [best_silent_len   |-> gap,
                   best_silent_start |-> fromordinal(toordinal(prev) + 1),
                   best_silent_end   |-> fromordinal(toordinal(prev) + gap)]
             ELSE [st EXCEPT !.best_silent_len = gap]
        ELSE st

RECURSIVE silent_loop(_, _, _)
silent_loop(days, i, st) ==
    IF i >= Len(days) THEN st
    ELSE silent_loop(days, i + 1, silent_step(st, days[i], days[i + 1]))

longest_talking_and_silent_streaks(msgs) ==
    IF msgs = <<>>
    THEN [talking |-> [length_days |-> 0, start_date |-> None, end_date |-> None],
          silent  |-> [length_days |-> 0, start_date |-> None, end_date |-> None]]
    ELSE LET days == distinct_days(msgs)
             t0 == [best_talk_len |-> 1, best_talk_start |-> days[1],
                    best_talk_end |-> days[1], cur_len |-> 1, cur_start |-> days[1]]
             t  == talk_final(days, talk_loop(days, 1, t0))
             s0 == [best_silent_len |-> 0, best_silent_start |-> NoDate,
                    best_silent_end |-> NoDate]
             s  == silent_loop(days, 1, s0)
         IN  [talking |-> [length_days |-> t.best_talk_len,
                           start_date  |-> isoformat(t.best_talk_start),
                           end_date    |-> isoformat(t.best_talk_end)],
              silent  |-> [length_days |-> s.best_silent_len,
                           start_date  |-> IF s.best_silent_start # NoDate
                                           THEN isoformat(s.best_silent_start) ELSE None,
                           end_date    |-> IF s.best_silent_end # NoDate
                                           THEN isoformat(s.best_silent_end) ELSE None]]

-----------------------------------------------------------------------------
(* stats_time.monthly_message_counts                                       *)

\* The decimal digits of n >= 0, as code points.
RECURSIVE Digits(_)
Digits(n) == IF n < 10 THEN <<48 + n>> ELSE Digits(n \div 10) \o <<48 + (n % 10)>>

\* format(n, "0<w>d"): zero-padded on the left to at least w characters.
RECURSIVE ZeroPad(_, _)
ZeroPad(s, w) == IF Len(s) >= w THEN s ELSE ZeroPad(<<48>> \o s, w)

\* key = f"{m.date.year:04d}-{m.date.month:02d}"
month_key(m) == ZeroPad(Digits(m.date.year), 4) \o <<45>> \o ZeroPad(Digits(m.date.month), 2)

\* str.__lt__: lexicographic order of the code points.
RECURSIVE StrLess(_, _)
StrLess(a, b) ==
    IF b = <<>> THEN FALSE
    ELSE IF a = <<>> THEN TRUE
    ELSE IF a[1] # b[1] THEN a[1] < b[1]
    ELSE StrLess(Tail(a), Tail(b))

RECURSIVE monthly_counter(_)
monthly_counter(msgs) ==
    IF msgs = <<>> THEN <<>>
    ELSE CounterAdd(monthly_counter(SubSeq(msgs, 1, Len(msgs) - 1)),
                    month_key(msgs[Len(msgs)]))

\* tuple order of the (key, count) items.
ItemLess(a, b) == StrLess(a[1], b[1]) \/ (a[1] = b[1] /\ a[2] < b[2])

RECURSIVE InsertItem(_, _)
InsertItem(s, x) ==
    IF s = <<>> THEN <<x>>
    ELSE IF ItemLess(x, s[1]) THEN <<x>> \o s
    ELSE <<s[1]>> \o InsertItem(Tail(s), x)

\* sorted(counts.items()): stable, ascending.
RECURSIVE sorted_items(_)
sorted_items(c) ==
    IF c = <<>> THEN <<>>
    ELSE InsertItem(sorted_items(SubSeq(c, 1, Len(c) - 1)), c[Len(c)])

\* Mutant: the counter is returned in insertion order, never sorted.
monthly_message_counts_unsorted(msgs) == monthly_counter(msgs)

monthly_message_counts(msgs) == sorted_items(monthly_counter(msgs))

-----------------------------------------------------------------------------
(* The parameters the word requests are made with.                         *)

MaxTopN == 3

MaxTargets == 2

TopNs == (-1)..MaxTopN

MinLens == {3, 4}

\* No skip words, or "ABBD" (normalized: abd).
Skips == {<<>>, << <<65, 66, 66, 68>> >>}

\* "abc", "ABBC" (normalized: abc), "ab", "" and "abd".
TargetSamples == {<<97, 98, 99>>, <<65, 66, 66, 67>>, <<97, 98>>, <<>>, <<97, 98, 100>>}

-----------------------------------------------------------------------------
(* api.py: the handlers, each loading the session's messages and calling   *)
(* one function of the engine.  messages and messages2 are the datasets of *)
(* two sessions; a step answers the same request for both.  The handlers   *)
(* keep nothing between requests, so a behaviour is one request on the     *)
(* loaded datasets.                                                        *)

NoRequest == [endpoint |-> "none", top_n |-> 10, min_len |-> 3, skip |-> <<>>, words |-> <<>>]

get_streaks ==
    /\ request = NoRequest
    /\ request' = [NoRequest EXCEPT !.endpoint = "get_streaks"]
    /\ response' = longest_talking_and_silent_streaks(messages)
    /\ response2' = longest_talking_and_silent_streaks(messages2)
    /\ UNCHANGED <<messages, messages2>>

get_monthly_counts ==
    /\ request = NoRequest
    /\ request' = [NoRequest EXCEPT !.endpoint = "get_monthly_counts"]
    /\ response' = monthly_message_counts(messages)
    /\ response2' = monthly_message_counts(messages2)
    /\ UNCHANGED <<messages, messages2>>

get_top_words ==
    \E n \in TopNs, ml \in MinLens, sk \in Skips :
        /\ request = NoRequest
        /\ request' = [endpoint |-> "get_top_words", top_n |-> n, min_len |-> ml,
                       skip |-> sk, words |-> <<>>]
        /\ response' = top_words(messages, ml, n, sk)
        /\ response2' = top_words(messages2, ml, n, sk)
        /\ UNCHANGED <<messages, messages2>>

post_word_search ==
    \E ws \in SeqsUpTo(TargetSamples, MaxTargets) :
        /\ request = NoRequest
        /\ request' = [NoRequest EXCEPT !.endpoint = "post_word_search", !.words = ws]
        /\ response' = count_specific_words(messages, ws)
        /\ response2' = count_specific_words(messages2, ws)
        /\ UNCHANGED <<messages, messages2>>

-----------------------------------------------------------------------------
(* The datasets of the date-driven functions: up to MaxMsgs messages on    *)
(* days around a year boundary, the 2024 leap day and a month apart.       *)

MaxMsgs == 4

Dates ==
    {date(2023, 12, 31), date(2024, 1, 1), date(2024, 1, 2), date(2024, 1, 3),
     date(2024, 1, 5), date(2024, 1, 10), date(2024, 2, 29), date(2024, 3, 1)}

DateMessages == {ChatMessage("ann", "user1", d, <<>>) : d \in Dates}

Init ==
    /\ messages \in SeqsUpTo(DateMessages, MaxMsgs)
    /\ messages2 = <<>>
    /\ request = NoRequest
    /\ response = <<>>
    /\ response2 = <<>>

Next == get_streaks \/ get_monthly_counts

Spec == Init /\ [][Next]_vars

-----------------------------------------------------------------------------
(* Two sessions whose datasets have the same set of message days.          *)

MaxPairMsgs == 3

DaySet(msgs) == {msgs[i].date_only : i \in 1..Len(msgs)}

InitPair ==
    /\ messages \in SeqsUpTo(DateMessages, MaxPairMsgs)
    /\ messages2 \in {s \in SeqsUpTo({messages[i] : i \in 1..Len(messages)}, MaxPairMsgs) :
                        DaySet(s) = DaySet(messages)}
    /\ request = NoRequest
    /\ response = <<>>
    /\ response2 = <<>>

NextPair == get_streaks

SpecPair == InitPair /\ [][NextPair]_vars

-----------------------------------------------------------------------------
(* The datasets of the word functions: up to MaxWordMsgs messages of one   *)
(* day, from three senders.                                                *)

MaxWordMsgs == 2

Day1 == date(2024, 1, 1)

Day2 == date(2024, 1, 2)

WordMessages ==
    {\* "abc abd"
     ChatMessage("ann", "user1", Day1, <<97, 98, 99, 32, 97, 98, 100>>),
     \* "abd abd abc"
     ChatMessage(None, "user2", Day1, <<97, 98, 100, 32, 97, 98, 100, 32, 97, 98, 99>>),
     \* "AAbbC ab"
     ChatMessage("ann", "user1", Day1, <<65, 65, 98, 98, 67, 32, 97, 98>>),
     \* "http://abc.ab/abd"
     ChatMessage(None, None, Day1,
                 <<104, 116, 116, 112, 58, 47, 47, 97, 98, 99, 46, 97, 98, 47, 97, 98, 100>>),
     \* "ftp://abc.abd"
     ChatMessage("ann", "user1", Day1,
                 <<102, 116, 112, 58, 47, 47, 97, 98, 99, 46, 97, 98, 100>>),
     \* "aabb abcd tak", tak in Cyrillic letters
     ChatMessage("", "user2", Day1,
                 <<97, 97, 98, 98, 32, 97, 98, 99, 100, 32, 1090, 1072, 1082>>),
     \* ""
     ChatMessage("ann", "user1", Day1, <<>>),
     \* "abc1abd_abcd https://abd"
     ChatMessage(None, "user2", Day1,
                 <<97, 98, 99, 49, 97, 98, 100, 95, 97, 98, 99, 100, 32,
                   104, 116, 116, 112, 115, 58, 47, 47, 97, 98, 100>>)}

InitWords ==
    /\ messages \in SeqsUpTo(WordMessages, MaxWordMsgs)
    /\ messages2 = <<>>
    /\ request = NoRequest
    /\ response = <<>>
    /\ response2 = <<>>

NextWords == get_top_words \/ post_word_search

SpecWords == InitWords /\ [][NextWords]_vars

-----------------------------------------------------------------------------
(* Two sessions whose datasets differ only in the order of the messages of *)
(* a day.                                                                  *)

MaxReorderMsgs == 2

ReorderMessages ==
    {ChatMessage(who[1], who[2], d, txt) :
        who \in {<<"ann", "user1">>, <<None, "user2">>},
        d \in {Day1, Day2},
        \* "abc abd", "abd", "AAbbC ab"
        txt \in {<<97, 98, 99, 32, 97, 98, 100>>, <<97, 98, 100>>,
                 <<65, 65, 98, 98, 67, 32, 97, 98>>}}

\* The sequences that hold the messages of msgs with the days in the same
\* positions.
SameDayReorderings(msgs) ==
    LET n == Len(msgs)
        perms == {q \in [1..n -> 1..n] :
                    /\ \A i \in 1..n, j \in 1..n : q[i] = q[j] => i = j
                    /\ \A i \in 1..n : msgs[q[i]].date_only = msgs[i].date_only}
    IN  {[i \in 1..n |-> msgs[q[i]]] : q \in perms}

InitReorder ==
    /\ messages \in SeqsUpTo(ReorderMessages, MaxReorderMsgs)
    /\ messages2 \in SameDayReorderings(messages)
    /\ request = NoRequest
    /\ response = <<>>
    /\ response2 = <<>>

NextReorder == get_top_words

SpecReorder == InitReorder /\ [][NextReorder]_vars

-----------------------------------------------------------------------------
(* The calendar, by day-to-day succession.                                 *)

Tomorrow(d) ==
    IF d.day < DaysInMonth(d.year, d.month) THEN date(d.year, d.month, d.day + 1)
    ELSE IF d.month < 12 THEN date(d.year, d.month + 1, 1)
    ELSE date(d.year + 1, 1, 1)

RECURSIVE DayAfter(_, _)
DayAfter(d, k) == IF k = 0 THEN d ELSE Tomorrow(DayAfter(d, k - 1))

\* The calendar days strictly between p and a later day c: the days of the
\* months from p's to c's that are after p and before c.
Between(p, c) ==
    LET months == (p.year * 12 + p.month - 1)..(c.year * 12 + c.month - 1)
        days   == {date(mi \div 12, (mi % 12) + 1, d) : mi \in months, d \in 1..31}
    IN  {x \in days : /\ x.day <= DaysInMonth(x.year, x.month)
                      /\ DateLess(p, x)
                      /\ DateLess(x, c)}

\* The n days from s on are all in S.
IsRun(S, s, n) == \A k \in 0..(n - 1) : DayAfter(s, k) \in S

LongestRun(S) ==
    CHOOSE n \in 1..Cardinality(S) :
        /\ \E s \in S : IsRun(S, s, n)
        /\ ~\E s \in S : IsRun(S, s, n + 1)

EarliestRun(S, n) ==
    CHOOSE s \in S : IsRun(S, s, n) /\ \A e \in S : IsRun(S, e, n) => ~DateLess(e, s)

\* p and c are active days with no active day between them.
Adjacent(S, p, c) ==
    /\ p \in S /\ c \in S /\ DateLess(p, c)
    /\ ~\E e \in S : DateLess(p, e) /\ DateLess(e, c)

\* The number of message-free days between each pair of adjacent active days.
GapTable(S) ==
    [pc \in {qe \in S \X S : Adjacent(S, qe[1], qe[2])} |->
        Cardinality(Between(pc[1], pc[2]))]

\* The first adjacent pair with the largest gap.
WidestGap(G) ==
    CHOOSE pc \in DOMAIN G : \A qe \in DOMAIN G :
        \/ G[qe] < G[pc]
        \/ G[qe] = G[pc] /\ ~DateLess(qe[1], pc[1])

Streaks == request.endpoint = "get_streaks"

\* C1: for a non-empty message sequence the talking streak is the longest run
\* of consecutive calendar days among the distinct message days (at least 1,
\* exactly 1 for a single active day), from the first to the last day of the
\* earliest such run.
C1_TalkingStreak ==
    (Streaks /\ messages # <<>>) =>
        LET S == DaySet(messages)
            n == LongestRun(S)
            s == EarliestRun(S, n)
        IN  /\ n >= 1
            /\ Cardinality(S) = 1 => n = 1
            /\ response.talking = [length_days |-> n,
                                   start_date  |-> isoformat(s),
                                   end_date    |-> isoformat(DayAfter(s, n - 1))]

\* The days of the spec's example, Jan 1, 2, 3 and 10: a streak of 3.
C1_Witness ==
    /\ Streaks
    /\ DaySet(messages) = {date(2024, 1, 1), date(2024, 1, 2), date(2024, 1, 3), date(2024, 1, 10)}
    /\ response.talking = [length_days |-> 3, start_date |-> "2024-01-01",
                           end_date |-> "2024-01-03"]

\* C2: with at least one gap between active days, the silent streak is the
\* largest gap between adjacent active days p and c, from the day after p to
\* the day before c for the first such pair, and no day in it has a message.
C2_SilentStreak ==
    Streaks =>
        LET S == DaySet(messages)
            G == GapTable(S)
        IN  (\E pc \in DOMAIN G : G[pc] > 0) =>
                LET pc == WidestGap(G)
                    p  == pc[1]
                    c  == pc[2]
                    B  == Between(p, c)
                IN  /\ Cardinality(S) >= 2
                    /\ B # {}
                    /\ B \cap S = {}
                    /\ \E e \in B :
                          /\ Tomorrow(e) = c
                          /\ response.silent = [length_days |-> G[pc],
                                                start_date  |-> isoformat(Tomorrow(p)),
                                                end_date    |-> isoformat(e)]

\* Two gaps of one day, after Jan 1 and after Jan 3: the first is reported.
C2_Witness ==
    /\ Streaks
    /\ DaySet(messages) = {date(2024, 1, 1), date(2024, 1, 3), date(2024, 1, 5)}
    /\ response.silent = [length_days |-> 1, start_date |-> "2024-01-02",
                          end_date |-> "2024-01-02"]

\* C3: the silent start and end dates are null exactly when the silent length
\* is 0, and empty input gives length 0 and null dates for both streaks.
C3_SilentNullIffZero ==
    Streaks =>
        /\ response.silent.length_days >= 0
        /\ response.silent.start_date = None <=> response.silent.length_days = 0
        /\ response.silent.end_date = None <=> response.silent.length_days = 0
        /\ messages = <<>> =>
              response = [talking |-> [length_days |-> 0, start_date |-> None, end_date |-> None],
                          silent  |-> [length_days |-> 0, start_date |-> None, end_date |-> None]]

\* Only consecutive active days, Feb 29 and Mar 1: no silence, null dates.
C3_Witness ==
    /\ Streaks
    /\ DaySet(messages) = {date(2024, 2, 29), date(2024, 3, 1)}
    /\ response.talking.length_days = 2
    /\ response.silent = [length_days |-> 0, start_date |-> None, end_date |-> None]

\* C4: two message sequences with the same set of message days give the same
\* talking and silent streaks.
C4_DependsOnDaySetOnly ==
    (Streaks /\ DaySet(messages) = DaySet(messages2)) => response = response2

\* The same three days in another order and with another number of messages.
C4_Witness ==
    /\ Streaks
    /\ Len(messages) = 3 /\ Len(messages2) = 2
    /\ messages[1].date_only = date(2024, 1, 10)
    /\ messages[2].date_only = date(2023, 12, 31)
    /\ messages[3].date_only = date(2024, 1, 10)
    /\ messages2[1].date_only = date(2023, 12, 31)
    /\ response2.silent.length_days = 9

\* The year and month a key of the form YYYY-MM denotes.
IsMonthKey(k) ==
    /\ Len(k) = 7
    /\ k[5] = 45
    /\ \A i \in {1, 2, 3, 4, 6, 7} : k[i] \in 48..57

KeyYear(k) == (k[1] - 48) * 1000 + (k[2] - 48) * 100 + (k[3] - 48) * 10 + (k[4] - 48)

KeyMonth(k) == (k[6] - 48) * 10 + (k[7] - 48)

\* a is before b in the lexicographic order of strings.
LexBefore(a, b) ==
    \/ Len(a) < Len(b) /\ \A i \in 1..Len(a) : a[i] = b[i]
    \/ \E k \in 1..Min(Len(a), Len(b)) :
          a[k] < b[k] /\ \A i \in 1..(k - 1) : a[i] = b[i]

RECURSIVE SumCounts(_)
SumCounts(items) == IF items = <<>> THEN 0 ELSE items[1][2] + SumCounts(Tail(items))

\* C9: the monthly counts have one YYYY-MM key for each month with a message
\* and no other, each with the number of messages of that month (never 0),
\* in ascending key order; the counts sum to the number of messages.
C9_MonthlyCounts ==
    request.endpoint = "get_monthly_counts" =>
        /\ \A i \in 1..Len(response) :
              LET k == response[i][1] IN
              /\ IsMonthKey(k)
              /\ response[i][2] > 0
              /\ response[i][2] =
                    Cardinality({j \in 1..Len(messages) :
                                    /\ messages[j].date.year = KeyYear(k)
                                    /\ messages[j].date.month = KeyMonth(k)})
        /\ \A j \in 1..Len(messages) : \E i \in 1..Len(response) :
              /\ KeyYear(response[i][1]) = messages[j].date.year
              /\ KeyMonth(response[i][1]) = messages[j].date.month
        /\ \A i \in 1..Len(response), j \in 1..Len(response) :
              i < j => LexBefore(response[i][1], response[j][1])
        /\ SumCounts(response) = Len(messages)
        /\ messages = <<>> => response = <<>>

\* Messages of March, December and January, in that order: three keys in
\* ascending order, 2023-12 first.
C9_Witness ==
    /\ request.endpoint = "get_monthly_counts"
    /\ Len(messages) = 4
    /\ messages[1].date = date(2024, 3, 1)
    /\ messages[2].date = date(2023, 12, 31)
    /\ messages[3].date = date(2024, 1, 5)
    /\ messages[4].date = date(2024, 1, 10)
    /\ response = << <<(<<50, 48, 50, 51, 45, 49, 50>>), 1>>,
                     <<(<<50, 48, 50, 52, 45, 48, 49>>), 2>>,
                     <<(<<50, 48, 50, 52, 45, 48, 51>>), 1>> >>

-----------------------------------------------------------------------------
(* The words of a dataset, by position.                                    *)

RECURSIVE Concat(_)
Concat(ss) == IF ss = <<>> THEN <<>> ELSE ss[1] \o Concat(Tail(ss))

\* The tokens of all messages, in message order.
AllTokens(msgs) == Concat([i \in 1..Len(msgs) |-> extract_normalized_words(msgs[i].text)])

\* Lowercase, then every run of one character cut to its first character.
Normalized(t) ==
    LET l    == lower(t)
        keep == {i \in 1..Len(l) : i = 1 \/ l[i] # l[i - 1]}
        nth(k) == CHOOSE i \in keep : Cardinality({j \in keep : j < i}) = k - 1
    IN  [k \in 1..Cardinality(keep) |-> l[nth(k)]]

\* The tokens top_words counts: long enough and not skipped.
CountedTokens(msgs, min_len, skip) ==
    LET skipped == {Normalized(DEFAULT_SKIP_WORDS[i]) : i \in 1..Len(DEFAULT_SKIP_WORDS)}
                       \cup {Normalized(skip[i]) : i \in 1..Len(skip)}
        keep(w) == Len(w) >= min_len /\ w \notin skipped
    IN  SelectSeq(AllTokens(msgs), keep)

Occurrences(toks, w) == {i \in 1..Len(toks) : toks[i] = w}

FirstOccurrence(toks, w) ==
    CHOOSE i \in Occurrences(toks, w) : \A j \in Occurrences(toks, w) : i <= j

RECURSIVE SumOver(_, _)
SumOver(f, D) ==
    IF D = {} THEN 0
    ELSE LET x == CHOOSE x \in D : TRUE IN f[x] + SumOver(f, D \ {x})

\* The per-sender counts of an entry are positive and sum to its total.
EntryConsistent(e) ==
    /\ SumOver(e.per_person, DOMAIN e.per_person) = e.total_count
    /\ \A q \in DOMAIN e.per_person : e.per_person[q] > 0

TopWords == request.endpoint = "get_top_words"

WordSearch == request.endpoint = "post_word_search"

\* C5: in every entry of top_words and of count_specific_words the per-sender
\* counts sum to total_count and every listed sender has a count above 0.
C5_PerSenderCountsSum ==
    /\ TopWords => \A i \in 1..Len(response) : EntryConsistent(response[i])
    /\ WordSearch => \A t \in DOMAIN response : EntryConsistent(response[t])

\* "abc abd" from ann and "abd abd abc" from user2: abd, 3 = 1 + 2.
C5_Witness ==
    /\ TopWords
    /\ Len(messages) = 2
    /\ sender_key(messages[1]) = "ann"
    /\ sender_key(messages[2]) = "user2"
    /\ Len(response) >= 1
    /\ response[1] = [word |-> <<97, 98, 100>>, total_count |-> 3,
                      per_person |-> ("ann" :> 1 @@ "user2" :> 2)]

\* C6: top_words returns the first min(top_n, number of counted words)
\* entries of the ranking by descending count, equal counts by first counted
\* occurrence, and nothing when top_n <= 0.
C6_TopWordsRanking ==
    TopWords =>
        LET toks == CountedTokens(messages, request.min_len, request.skip)
            W    == {toks[i] : i \in 1..Len(toks)}
            cnt(w) == Cardinality(Occurrences(toks, w))
            Before(a, b) ==
                \/ cnt(a) > cnt(b)
                \/ cnt(a) = cnt(b) /\ FirstOccurrence(toks, a) < FirstOccurrence(toks, b)
            n == request.top_n
            R == {response[i].word : i \in 1..Len(response)}
        IN  /\ Len(response) = (IF n <= 0 THEN 0 ELSE Min(n, Cardinality(W)))
            /\ R \subseteq W
            /\ \A i \in 1..Len(response) : response[i].total_count = cnt(response[i].word)
            /\ \A i \in 1..Len(response), j \in 1..Len(response) :
                  i < j => Before(response[i].word, response[j].word)
            /\ \A w \in W \ R : \A i \in 1..Len(response) : Before(response[i].word, w)

\* "AAbbC ab" then "abd abd abc", no skip word given: abc and abd both count
\* 2, abc was counted first, and top_n = 1 keeps abc alone.
C6_Witness ==
    /\ TopWords
    /\ request.top_n = 1 /\ request.skip = <<>>
    /\ Len(messages) = 2
    /\ AllTokens(messages) = << <<97, 98, 99>>, <<97, 98, 100>>, <<97, 98, 100>>, <<97, 98, 99>> >>
    /\ Len(response) = 1
    /\ response[1].word = <<97, 98, 99>>
    /\ response[1].total_count = 2

\* C7: count_specific_words has one entry for each original target whose
\* normalized form is not empty, keyed by the original; its total_count is
\* the number of tokens equal to the normalized target, so originals with
\* the same normalized form have the same counts.
C7_SpecificWordsExactMatch ==
    WordSearch =>
        LET T    == {request.words[i] : i \in 1..Len(request.words)}
            toks == AllTokens(messages)
        IN  /\ DOMAIN response = {t \in T : Normalized(t) # <<>>}
            /\ \A t \in DOMAIN response :
                  response[t].total_count = Cardinality(Occurrences(toks, Normalized(t)))
            /\ \A t \in DOMAIN response, u \in DOMAIN response :
                  Normalized(t) = Normalized(u) => response[t] = response[u]

\* Targets "ABBC" and "abc" on "abc abd" and "AAbbC ab": both count the two
\* abc tokens, under their own keys.
C7_Witness ==
    /\ WordSearch
    /\ request.words = << <<65, 66, 66, 67>>, <<97, 98, 99>> >>
    /\ AllTokens(messages) = << <<97, 98, 99>>, <<97, 98, 100>>, <<97, 98, 99>> >>
    /\ response = (<<65, 66, 66, 67>> :> [total_count |-> 2, per_person |-> ("ann" :> 2)]
                   @@ <<97, 98, 99>> :> [total_count |-> 2, per_person |-> ("ann" :> 2)])

\* The text is scheme://rest: letters, "://", and one or more characters
\* that are not whitespace, up to the end.
IsURLOnly(text) ==
    \E k \in 1..Len(text) :
        /\ \A i \in 1..k : LowerChar(text[i]) \in 97..122
        /\ HasAt(text, k + 1, <<58, 47, 47>>)
        /\ Len(text) > k + 3
        /\ \A i \in (k + 4)..Len(text) : ~IsSpace(text[i])

\* C8: a message whose text is only a URL of any scheme yields no token and
\* adds nothing to the counts of top_words and count_specific_words.
C8_URLOnlyYieldsNoTokens ==
    LET urls == \A i \in 1..Len(messages) : IsURLOnly(messages[i].text)
    IN  /\ request # NoRequest =>
              \A i \in 1..Len(messages) :
                  IsURLOnly(messages[i].text) =>
                      extract_normalized_words(messages[i].text) = <<>>
        /\ (TopWords /\ urls) => response = <<>>
        /\ (WordSearch /\ urls) => \A t \in DOMAIN response : response[t].total_count = 0

\* C10, as stated: reordering the messages of a day leaves the ranked list of
\* top_words as it is.
C10_SameRankedList == TopWords => response = response2

\* C10, amended: reordering the messages of a day leaves the length of the
\* list and its sequence of total counts as they are, and the entry of every
\* word in both lists; the lists hold the same entries when top_n is at least
\* the number of counted words, and are equal when no two counted words have
\* the same count.
C10_SameCountsUpToTies ==
    TopWords =>
        LET toks == CountedTokens(messages, request.min_len, request.skip)
            W    == {toks[i] : i \in 1..Len(toks)}
            cnt(w) == Cardinality(Occurrences(toks, w))
        IN  /\ Len(response) = Len(response2)
            /\ \A i \in 1..Len(response) :
                  response[i].total_count = response2[i].total_count
            /\ \A i \in 1..Len(response), j \in 1..Len(response2) :
                  response[i].word = response2[j].word => response[i] = response2[j]
            /\ request.top_n >= Cardinality(W) =>
                  {response[i] : i \in 1..Len(response)}
                      = {response2[i] : i \in 1..Len(response2)}
            /\ (\A a \in W, b \in W : a # b => cnt(a) # cnt(b)) => response = response2

\* "AAbbC ab" and "abd" of one day, in the two orders: abc and abd count 1
\* each and come in message order.
C10_Witness ==
    /\ TopWords
    /\ request.top_n = 3
    /\ Len(messages) = 2
    /\ messages2 = <<messages[2], messages[1]>>
    /\ messages[1].date_only = messages[2].date_only
    /\ Len(response) = 2
    /\ response[1].word = <<97, 98, 99>>
    /\ response2[1].word = <<97, 98, 100>>
    /\ response[1] = response2[2]

====
